---- MODULE Spec2Model ----
(***************************************************************************)
(* Stock-ledger transaction engine of WMS-Python: InventoryService over   *)
(* the SQLite product and document repositories.                          *)
(*                                                                         *)
(* The database is modelled by three tables: variants (id -> stock_qty),   *)
(* documents (id -> doc_type) and document_items (doc id -> item rows).    *)
(* One action models one complete call of a service operation.            *)
(***************************************************************************)
EXTENDS Integers, Sequences, FiniteSets, TLC

\* ------------------------------------------------------------------ bounds
MaxVariants == 2    \* variant ids are 1..MaxVariants
MaxQty == 1         \* item quantities are 1..MaxQty (ADJUST: -MaxQty..MaxQty)
MaxItems == 2       \* items per document
MaxDocs == 2        \* documents ever inserted (cap on the rowid counter)
MaxMismatchItems == 1   \* items of a document handed to the wrong operation
MaxWorkers == 2     \* callers whose repository calls interleave
MaxProducts == 2    \* product ids are 1..MaxProducts
MaxSafetyStock == 1 \* safety_stock values typed into the variant form
MaxActualQty == 1   \* counted quantities typed into the stock count form

\* Variant.safety_stock when none is given
DefaultSafetyStock == 5

VariantIds == 1..MaxVariants
Products == 1..MaxProducts
SafetyStocks == 0..MaxSafetyStock
DocTypes == {"INBOUND", "OUTBOUND", "ADJUST"}

\* Python's None for a missing variant row and a missing document row
NoVariant == [id |-> 0, stock_qty |-> 0]
NoDocument == [doc_type |-> "None", items |-> << >>]

\* Outcome of a call: normal return or the exception class raised
OK == "OK"
BusinessRuleViolation == "BusinessRuleViolation"
OutOfStockError == "OutOfStockError"
EntityNotFoundError == "EntityNotFoundError"
AttributeError == "AttributeError"
RepositoryError == "RepositoryError"

VARIABLES
    stock_qty,       \* variants table: existing variant id -> stock_qty
    safety_stock,    \* variants table: existing variant id -> safety_stock
    product_id,      \* variants table: existing variant id -> product_id
    documents,       \* documents table: stored document id -> doc_type
    document_items,  \* document_items table: stored document id -> item rows
    doc_seq,         \* last rowid handed out by the documents table
    calls,           \* repository calls made by the call that just returned
    last,            \* the call that just returned: operation, argument, outcome
    before,          \* the tables as they were when that call started
    fresh,           \* the latest successful creation while nothing else ran since
    workers,         \* interleaved callers: the position of each inside its call
    selected_variant, \* stock count window: the variant read when it was selected
    tree             \* stock count window: the entries of the count list

vars == <<stock_qty, safety_stock, product_id, documents, document_items, doc_seq,
          calls, last, before, fresh, workers, selected_variant, tree>>

\* ------------------------------------------------------------- domain model
\* DocumentItem(variant_id, quantity); unit_price has no effect on stock
DocumentItem(qtys) == [variant_id : VariantIds, quantity : qtys]

ItemLists(qtys) == UNION {[1..n -> DocumentItem(qtys)] : n \in 0..MaxItems}

\* Quantities a caller can put on a line: positive for INBOUND/OUTBOUND,
\* a signed difference for ADJUST
Quantities(doc_type) ==
    IF doc_type = "ADJUST" THEN (0 - MaxQty)..MaxQty ELSE 1..MaxQty

\* Document(doc_type, items) as built by a caller (id not yet assigned)
Document == UNION {[doc_type : {t}, items : ItemLists(Quantities(t))] : t \in DocTypes}

\* The documents a caller hands to the operation for doc_type: any document of
\* that type, and short documents of another type
Drafts(doc_type) ==
    {d \in Document : d.doc_type = doc_type \/ Len(d.items) <= MaxMismatchItems}

\* ------------------------------------------------------------ repositories
\* The database handle threaded through one operation
Db == [stock_qty |-> stock_qty, documents |-> documents,
       document_items |-> document_items, doc_seq |-> doc_seq, calls |-> << >>]

Log(db, call) == [db EXCEPT !.calls = Append(@, call)]

\* SqliteProductRepository.get_variant_by_id: the row as a Variant, or None
get_variant_by_id(db, variant_id) ==
    IF variant_id \in DOMAIN db.stock_qty
    THEN [id |-> variant_id, stock_qty |-> db.stock_qty[variant_id]]
    ELSE NoVariant

\* Variation of update_variant: the UPDATE has no WHERE id = ?
update_variantEveryRow(db, variant_id, qty) ==
    Log([db EXCEPT !.stock_qty = [v \in DOMAIN db.stock_qty |-> qty]],
        <<"update_variant", variant_id, qty>>)

\* SqliteProductRepository.update_variant, for a variant that was just read
update_variant(db, variant_id, qty) ==
    IF variant_id \in DOMAIN db.stock_qty
    THEN Log([db EXCEPT !.stock_qty[variant_id] = qty],
             <<"update_variant", variant_id, qty>>)
    ELSE Log(db, <<"update_variant", variant_id, qty>>)

\* SqliteDocumentRepository.add_document: header and items in one transaction;
\* cursor.lastrowid hands out the next id, counted up from doc_seq
add_document(db, document) ==
    LET new_doc_id == db.doc_seq + 1
    IN Log([db EXCEPT !.documents = new_doc_id :> document.doc_type @@ @,
                      !.document_items = new_doc_id :> document.items @@ @,
                      !.doc_seq = new_doc_id],
           <<"add_document", new_doc_id>>)

\* The JOIN of get_document_by_id keeps the item rows whose variant exists
JoinedItems(db, doc_id) ==
    SelectSeq(db.document_items[doc_id],
              LAMBDA item : item.variant_id \in DOMAIN db.stock_qty)

\* SqliteDocumentRepository.get_document_by_id: the document with items, or None
get_document_by_id(db, doc_id) ==
    IF doc_id \in DOMAIN db.documents
    THEN [doc_type |-> db.documents[doc_id], items |-> JoinedItems(db, doc_id)]
    ELSE NoDocument

Without(f, k) == [x \in (DOMAIN f) \ {k} |-> f[x]]

\* ON DELETE CASCADE of document_items.doc_id (schema.sql)
CascadeItems(db, doc_id) ==
    [db EXCEPT !.document_items = Without(@, doc_id)]

\* Variation of delete_document_row: the header row is left in place
delete_document_rowKeepsHeader(db, doc_id) ==
    Log(db, <<"delete_document", doc_id>>)

\* SqliteDocumentRepository.delete_document: DELETE FROM documents WHERE id = ?
delete_document_row(db, doc_id) ==
    Log(CascadeItems([db EXCEPT !.documents = Without(@, doc_id)], doc_id),
        <<"delete_document", doc_id>>)

\* ------------------------------------------------------------------ service
Return(db, result) == [db |-> db, result |-> result]

\* Variation of InboundApply: the loop ends at the first missing variant
RECURSIVE InboundApplyStopsAtMissing(_, _, _)
InboundApplyStopsAtMissing(db, items, i) ==
    IF i > Len(items) THEN db
    ELSE LET item == items[i]
             rd == Log(db, <<"get_variant_by_id", item.variant_id>>)
             variant == get_variant_by_id(rd, item.variant_id)
         IN IF variant = NoVariant THEN rd
            ELSE InboundApplyStopsAtMissing(
                     update_variant(rd, variant.id, variant.stock_qty + item.quantity),
                     items, i + 1)

\* Variation of InboundApply: the quantity is assigned instead of added
RECURSIVE InboundApplyAssigns(_, _, _)
InboundApplyAssigns(db, items, i) ==
    IF i > Len(items) THEN db
    ELSE LET item == items[i]
             rd == Log(db, <<"get_variant_by_id", item.variant_id>>)
             variant == get_variant_by_id(rd, item.variant_id)
         IN IF variant = NoVariant
            THEN InboundApplyAssigns(rd, items, i + 1)
            ELSE InboundApplyAssigns(update_variant(rd, variant.id, item.quantity),
                                     items, i + 1)

\* create_inbound_order, step 2: add each item's quantity to its variant
RECURSIVE InboundApply(_, _, _)
InboundApply(db, items, i) ==
    IF i > Len(items) THEN db
    ELSE LET item == items[i]
             rd == Log(db, <<"get_variant_by_id", item.variant_id>>)
             variant == get_variant_by_id(rd, item.variant_id)
         IN IF variant = NoVariant
            THEN InboundApply(rd, items, i + 1)
            ELSE InboundApply(update_variant(rd, variant.id,
                                             variant.stock_qty + item.quantity),
                              items, i + 1)

\* Variation of create_inbound_order: the doc_type is not examined
create_inbound_orderAnyType(db, document) ==
    Return(InboundApply(add_document(db, document), document.items, 1), OK)

create_inbound_order(db, document) ==
    IF document.doc_type # "INBOUND" THEN Return(db, BusinessRuleViolation)
    ELSE Return(InboundApply(add_document(db, document), document.items, 1), OK)

\* Variation of OutboundPreCheck: the stock comparison is left out
RECURSIVE OutboundPreCheckNoStockTest(_, _, _)
OutboundPreCheckNoStockTest(db, items, i) ==
    IF i > Len(items) THEN Return(db, OK)
    ELSE LET item == items[i]
             rd == Log(db, <<"get_variant_by_id", item.variant_id>>)
             variant == get_variant_by_id(rd, item.variant_id)
         IN IF variant = NoVariant THEN Return(rd, EntityNotFoundError)
            ELSE OutboundPreCheckNoStockTest(rd, items, i + 1)

\* Variation of OutboundPreCheck: a missing variant is skipped, as inbound does
RECURSIVE OutboundPreCheckSkipsMissing(_, _, _)
OutboundPreCheckSkipsMissing(db, items, i) ==
    IF i > Len(items) THEN Return(db, OK)
    ELSE LET item == items[i]
             rd == Log(db, <<"get_variant_by_id", item.variant_id>>)
             variant == get_variant_by_id(rd, item.variant_id)
         IN IF variant = NoVariant THEN OutboundPreCheckSkipsMissing(rd, items, i + 1)
            ELSE IF variant.stock_qty < item.quantity THEN Return(rd, OutOfStockError)
            ELSE OutboundPreCheckSkipsMissing(rd, items, i + 1)

\* create_outbound_order, step 1: pre-check of every item, fail fast
RECURSIVE OutboundPreCheck(_, _, _)
OutboundPreCheck(db, items, i) ==
    IF i > Len(items) THEN Return(db, OK)
    ELSE LET item == items[i]
             rd == Log(db, <<"get_variant_by_id", item.variant_id>>)
             variant == get_variant_by_id(rd, item.variant_id)
         IN IF variant = NoVariant THEN Return(rd, EntityNotFoundError)
            ELSE IF variant.stock_qty < item.quantity THEN Return(rd, OutOfStockError)
            ELSE OutboundPreCheck(rd, items, i + 1)

\* create_outbound_order, step 3: re-fetch each variant and subtract
RECURSIVE OutboundApply(_, _, _)
OutboundApply(db, items, i) ==
    IF i > Len(items) THEN Return(db, OK)
    ELSE LET item == items[i]
             rd == Log(db, <<"get_variant_by_id", item.variant_id>>)
             variant == get_variant_by_id(rd, item.variant_id)
         IN IF variant = NoVariant THEN Return(rd, AttributeError)
            ELSE OutboundApply(update_variant(rd, variant.id,
                                              variant.stock_qty - item.quantity),
                               items, i + 1)

\* Variation of create_outbound_order: the document is saved before the pre-check
create_outbound_orderSavesFirst(db, document) ==
    IF document.doc_type # "OUTBOUND" THEN Return(db, BusinessRuleViolation)
    ELSE LET pre == OutboundPreCheck(add_document(db, document), document.items, 1)
         IN IF pre.result # OK THEN pre
            ELSE OutboundApply(pre.db, document.items, 1)

create_outbound_order(db, document) ==
    IF document.doc_type # "OUTBOUND" THEN Return(db, BusinessRuleViolation)
    ELSE LET pre == OutboundPreCheck(db, document.items, 1)
         IN IF pre.result # OK THEN pre
            ELSE OutboundApply(add_document(pre.db, document), document.items, 1)

\* Variation of AdjustApply: a negative result is written like any other
RECURSIVE AdjustApplyUnchecked(_, _, _)
AdjustApplyUnchecked(db, items, i) ==
    IF i > Len(items) THEN Return(db, OK)
    ELSE LET item == items[i]
             rd == Log(db, <<"get_variant_by_id", item.variant_id>>)
             variant == get_variant_by_id(rd, item.variant_id)
             new_qty == variant.stock_qty + item.quantity
         IN IF variant = NoVariant THEN AdjustApplyUnchecked(rd, items, i + 1)
            ELSE AdjustApplyUnchecked(update_variant(rd, variant.id, new_qty),
                                      items, i + 1)

\* Variation of AdjustApply: the rejected item is written before the error
RECURSIVE AdjustApplyWritesRejected(_, _, _)
AdjustApplyWritesRejected(db, items, i) ==
    IF i > Len(items) THEN Return(db, OK)
    ELSE LET item == items[i]
             rd == Log(db, <<"get_variant_by_id", item.variant_id>>)
             variant == get_variant_by_id(rd, item.variant_id)
             new_qty == variant.stock_qty + item.quantity
         IN IF variant = NoVariant THEN AdjustApplyWritesRejected(rd, items, i + 1)
            ELSE IF new_qty < 0
            THEN Return(update_variant(rd, variant.id, new_qty), BusinessRuleViolation)
            ELSE AdjustApplyWritesRejected(update_variant(rd, variant.id, new_qty),
                                           items, i + 1)

\* Variation of AdjustApply: a missing variant ends the call with an error
RECURSIVE AdjustApplyFailsOnMissing(_, _, _)
AdjustApplyFailsOnMissing(db, items, i) ==
    IF i > Len(items) THEN Return(db, OK)
    ELSE LET item == items[i]
             rd == Log(db, <<"get_variant_by_id", item.variant_id>>)
             variant == get_variant_by_id(rd, item.variant_id)
             new_qty == variant.stock_qty + item.quantity
         IN IF variant = NoVariant THEN Return(rd, EntityNotFoundError)
            ELSE IF new_qty < 0 THEN Return(rd, BusinessRuleViolation)
            ELSE AdjustApplyFailsOnMissing(update_variant(rd, variant.id, new_qty),
                                           items, i + 1)

\* create_adjustment_order, the loop: check and apply item by item
RECURSIVE AdjustApply(_, _, _)
AdjustApply(db, items, i) ==
    IF i > Len(items) THEN Return(db, OK)
    ELSE LET item == items[i]
             rd == Log(db, <<"get_variant_by_id", item.variant_id>>)
             variant == get_variant_by_id(rd, item.variant_id)
             new_qty == variant.stock_qty + item.quantity
         IN IF variant = NoVariant THEN AdjustApply(rd, items, i + 1)
            ELSE IF new_qty < 0 THEN Return(rd, BusinessRuleViolation)
            ELSE AdjustApply(update_variant(rd, variant.id, new_qty), items, i + 1)

create_adjustment_order(db, document) ==
    IF document.doc_type # "ADJUST" THEN Return(db, BusinessRuleViolation)
    ELSE AdjustApply(add_document(db, document), document.items, 1)

\* Variation of Change: an adjustment is reversed with its own sign
ChangeAdjustNotNegated(doc_type, item) ==
    IF doc_type = "INBOUND" THEN 0 - item.quantity
    ELSE IF doc_type = "OUTBOUND" THEN item.quantity
    ELSE IF doc_type = "ADJUST" THEN item.quantity
    ELSE 0

\* delete_document, step 2: the reversal delta of one item
Change(doc_type, item) ==
    IF doc_type = "INBOUND" THEN 0 - item.quantity
    ELSE IF doc_type = "OUTBOUND" THEN item.quantity
    ELSE IF doc_type = "ADJUST" THEN 0 - item.quantity
    ELSE 0

\* impacts.get(variant_id, 0) on the insertion-ordered dict
ImpactGet(impacts, variant_id) ==
    IF \E k \in 1..Len(impacts) : impacts[k].variant_id = variant_id
    THEN impacts[CHOOSE k \in 1..Len(impacts) : impacts[k].variant_id = variant_id].change
    ELSE 0

\* Variation of ImpactSet: every item gets an entry of its own
ImpactSetAppends(impacts, variant_id, value) ==
    Append(impacts, [variant_id |-> variant_id,
                     change |-> value - ImpactGet(impacts, variant_id)])

\* impacts[variant_id] = value: in place for a known key, appended for a new one
ImpactSet(impacts, variant_id, value) ==
    IF \E k \in 1..Len(impacts) : impacts[k].variant_id = variant_id
    THEN [k \in 1..Len(impacts) |->
             IF impacts[k].variant_id = variant_id
             THEN [variant_id |-> variant_id, change |-> value]
             ELSE impacts[k]]
    ELSE Append(impacts, [variant_id |-> variant_id, change |-> value])

\* delete_document, step 2: sum the reversal deltas per variant
RECURSIVE ComputeImpacts(_, _, _)
ComputeImpacts(doc, i, impacts) ==
    IF i > Len(doc.items) THEN impacts
    ELSE LET item == doc.items[i]
             change == Change(doc.doc_type, item)
         IN ComputeImpacts(doc, i + 1,
                ImpactSet(impacts, item.variant_id,
                          ImpactGet(impacts, item.variant_id) + change))

\* Variation of StrictCheck: impacts of every sign are tested
RECURSIVE StrictCheckTestsEveryImpact(_, _, _)
StrictCheckTestsEveryImpact(db, impacts, k) ==
    IF k > Len(impacts) THEN Return(db, OK)
    ELSE LET vid == impacts[k].variant_id
             change == impacts[k].change
             rd == Log(db, <<"get_variant_by_id", vid>>)
             variant == get_variant_by_id(rd, vid)
             final_qty == variant.stock_qty + change
         IN IF variant = NoVariant THEN StrictCheckTestsEveryImpact(rd, impacts, k + 1)
            ELSE IF final_qty < 0 THEN Return(rd, BusinessRuleViolation)
            ELSE StrictCheckTestsEveryImpact(rd, impacts, k + 1)

\* Variation of StrictCheck: the current stock is tested without the change
RECURSIVE StrictCheckIgnoresChange(_, _, _)
StrictCheckIgnoresChange(db, impacts, k) ==
    IF k > Len(impacts) THEN Return(db, OK)
    ELSE LET vid == impacts[k].variant_id
             change == impacts[k].change
             rd == Log(db, <<"get_variant_by_id", vid>>)
             variant == get_variant_by_id(rd, vid)
         IN IF ~(change < 0) THEN StrictCheckIgnoresChange(db, impacts, k + 1)
            ELSE IF variant = NoVariant THEN StrictCheckIgnoresChange(rd, impacts, k + 1)
            ELSE IF variant.stock_qty < 0 THEN Return(rd, BusinessRuleViolation)
            ELSE StrictCheckIgnoresChange(rd, impacts, k + 1)

\* delete_document, step 3: the strict check of every negative impact
RECURSIVE StrictCheck(_, _, _)
StrictCheck(db, impacts, k) ==
    IF k > Len(impacts) THEN Return(db, OK)
    ELSE LET vid == impacts[k].variant_id
             change == impacts[k].change
             rd == Log(db, <<"get_variant_by_id", vid>>)
             variant == get_variant_by_id(rd, vid)
             final_qty == variant.stock_qty + change
         IN IF ~(change < 0) THEN StrictCheck(db, impacts, k + 1)
            ELSE IF variant = NoVariant THEN StrictCheck(rd, impacts, k + 1)
            ELSE IF final_qty < 0 THEN Return(rd, BusinessRuleViolation)
            ELSE StrictCheck(rd, impacts, k + 1)

\* Variation of RollbackApply: the impact is subtracted instead of added
RECURSIVE RollbackApplySubtracts(_, _, _)
RollbackApplySubtracts(db, impacts, k) ==
    IF k > Len(impacts) THEN db
    ELSE LET vid == impacts[k].variant_id
             change == impacts[k].change
             rd == Log(db, <<"get_variant_by_id", vid>>)
             variant == get_variant_by_id(rd, vid)
         IN IF change = 0 THEN RollbackApplySubtracts(db, impacts, k + 1)
            ELSE IF variant = NoVariant THEN RollbackApplySubtracts(rd, impacts, k + 1)
            ELSE RollbackApplySubtracts(
                     update_variant(rd, variant.id, variant.stock_qty - change),
                     impacts, k + 1)

\* delete_document, step 4: apply every nonzero impact
RECURSIVE RollbackApply(_, _, _)
RollbackApply(db, impacts, k) ==
    IF k > Len(impacts) THEN db
    ELSE LET vid == impacts[k].variant_id
             change == impacts[k].change
             rd == Log(db, <<"get_variant_by_id", vid>>)
             variant == get_variant_by_id(rd, vid)
         IN IF change = 0 THEN RollbackApply(db, impacts, k + 1)
            ELSE IF variant = NoVariant THEN RollbackApply(rd, impacts, k + 1)
            ELSE RollbackApply(update_variant(rd, variant.id, variant.stock_qty + change),
                               impacts, k + 1)

\* Variation of delete_document: the impacts are applied before they are checked
delete_documentAppliesFirst(db, doc_id) ==
    LET rd == Log(db, <<"get_document_by_id", doc_id>>)
        doc == get_document_by_id(rd, doc_id)
        impacts == ComputeImpacts(doc, 1, << >>)
        applied == RollbackApply(rd, impacts, 1)
        checked == StrictCheck([applied EXCEPT !.stock_qty = rd.stock_qty], impacts, 1)
    IN IF doc = NoDocument THEN Return(rd, EntityNotFoundError)
       ELSE IF checked.result # OK
       THEN Return([checked.db EXCEPT !.stock_qty = applied.stock_qty], checked.result)
       ELSE Return(delete_document_row(
                       [checked.db EXCEPT !.stock_qty = applied.stock_qty], doc_id), OK)

\* Variation of delete_document: an unknown id is not reported
delete_documentIgnoresUnknownId(db, doc_id) ==
    LET rd == Log(db, <<"get_document_by_id", doc_id>>)
        doc == get_document_by_id(rd, doc_id)
        impacts == ComputeImpacts(doc, 1, << >>)
        checked == StrictCheck(rd, impacts, 1)
    IN IF checked.result # OK THEN checked
       ELSE Return(delete_document_row(RollbackApply(checked.db, impacts, 1), doc_id), OK)

delete_document(db, doc_id) ==
    LET rd == Log(db, <<"get_document_by_id", doc_id>>)
        doc == get_document_by_id(rd, doc_id)
        impacts == ComputeImpacts(doc, 1, << >>)
        checked == StrictCheck(rd, impacts, 1)
    IN IF doc = NoDocument THEN Return(rd, EntityNotFoundError)
       ELSE IF checked.result # OK THEN checked
       ELSE Return(delete_document_row(RollbackApply(checked.db, impacts, 1), doc_id), OK)

\* ------------------------------------------------------------------ actions
\* The tables as the caller can observe them
Tables == [stock_qty |-> stock_qty, safety_stock |-> safety_stock,
           product_id |-> product_id, documents |-> documents,
           document_items |-> document_items]

IdleCall == [op |-> "idle", document |-> NoDocument, doc_id |-> 0, result |-> OK,
             returned |-> << >>]
NoFresh == [state |-> "none", doc_id |-> 0, stock_qty |-> << >>]

\* A caller that is not inside a call; the calls of Spec run one at a time
Workers == 1..MaxWorkers
IdleWorker == [op |-> "idle", pc |-> "idle", document |-> NoDocument, doc_id |-> 0,
               i |-> 0, variant |-> NoVariant, impacts |-> << >>, result |-> OK]
NoWorkers == [w \in Workers |-> IdleWorker]

\* The caller (a presenter's event handler) starts one call at a time
Idle == last.op = "idle"

\* One complete call: the tables after it, its repository calls and its outcome
Finish(op, document, doc_id, r) ==
    /\ stock_qty' = r.db.stock_qty
    /\ documents' = r.db.documents
    /\ document_items' = r.db.document_items
    /\ doc_seq' = r.db.doc_seq
    /\ calls' = r.db.calls
    /\ last' = [op |-> op, document |-> document, doc_id |-> doc_id,
                result |-> r.result, returned |-> << >>]
    /\ before' = Tables
    /\ UNCHANGED <<workers, selected_variant, tree>>

\* VariantPresenter.handle_add_variant: a new variant of the presenter's product
\* starts with stock 0 and the safety_stock of the form
AddVariantOf(products, thresholds) ==
    /\ Idle
    /\ Cardinality(DOMAIN stock_qty) < MaxVariants
    /\ LET new_id == Cardinality(DOMAIN stock_qty) + 1
       IN /\ Finish("add_variant", NoDocument, new_id,
                    Return([Db EXCEPT !.stock_qty = new_id :> 0 @@ @], OK))
          /\ \E p \in products : product_id' = new_id :> p @@ product_id
          /\ \E t \in thresholds : safety_stock' = new_id :> t @@ safety_stock
    /\ fresh' = NoFresh

\* The form left at its threshold, in the window of the first product
AddVariant == AddVariantOf({1}, {DefaultSafetyStock})

\* A creation is taken while the documents table's rowid stays within cap
Create(op, document, r, cap) ==
    /\ r.db.doc_seq <= cap
    /\ Finish(op, document, IF r.db.doc_seq > doc_seq THEN r.db.doc_seq ELSE 0, r)
    /\ fresh' = IF r.result = OK
                THEN [state |-> "created", doc_id |-> r.db.doc_seq,
                      stock_qty |-> stock_qty]
                ELSE NoFresh
    /\ UNCHANGED <<safety_stock, product_id>>

CreateInbound(cap) ==
    /\ Idle
    /\ \E document \in Drafts("INBOUND") :
        Create("create_inbound_order", document,
               create_inbound_order(Db, document), cap)

CreateOutbound(cap) ==
    /\ Idle
    /\ \E document \in Drafts("OUTBOUND") :
        Create("create_outbound_order", document,
               create_outbound_order(Db, document), cap)

CreateAdjustment(cap) ==
    /\ Idle
    /\ \E document \in Drafts("ADJUST") :
        Create("create_adjustment_order", document,
               create_adjustment_order(Db, document), cap)

DeleteDocument(cap) ==
    /\ Idle
    /\ \E doc_id \in 1..cap :
        /\ Finish("delete_document", get_document_by_id(Db, doc_id), doc_id,
                  delete_document(Db, doc_id))
        /\ fresh' = IF fresh.state = "created" /\ fresh.doc_id = doc_id
                    THEN [fresh EXCEPT !.state = "deleting"]
                    ELSE NoFresh
    /\ UNCHANGED <<safety_stock, product_id>>

\* The handler that made the call shows the outcome and returns to the event loop
Acknowledge ==
    /\ ~Idle
    /\ last' = IdleCall
    /\ calls' = << >>
    /\ before' = Tables
    /\ UNCHANGED <<selected_variant, tree>>
    /\ UNCHANGED <<stock_qty, safety_stock, product_id, documents, document_items,
                   doc_seq, fresh, workers>>

Init ==
    /\ stock_qty = << >>
    /\ safety_stock = << >>
    /\ product_id = << >>
    /\ documents = << >>
    /\ document_items = << >>
    /\ doc_seq = 0
    /\ calls = << >>
    /\ last = IdleCall
    /\ before = Tables
    /\ fresh = NoFresh
    /\ workers = NoWorkers
    /\ selected_variant = NoVariant
    /\ tree = << >>

NextUpTo(cap) ==
    \/ AddVariant
    \/ CreateInbound(cap)
    \/ CreateOutbound(cap)
    \/ CreateAdjustment(cap)
    \/ DeleteDocument(cap)
    \/ Acknowledge

Next == NextUpTo(MaxDocs)

Spec == Init /\ [][Next]_vars

\* The database after handle_add_variant, an inbound of 1 and an outbound that
\* lists the variant twice with quantity 1 each: the pre-check passes both
\* items against stock 1 and the two decrements leave stock -1
InitOversold ==
    /\ stock_qty = <<0 - 1>>
    /\ safety_stock = <<DefaultSafetyStock>>
    /\ product_id = <<1>>
    /\ documents = <<"INBOUND", "OUTBOUND">>
    /\ document_items = << <<[variant_id |-> 1, quantity |-> 1]>>,
                           <<[variant_id |-> 1, quantity |-> 1],
                             [variant_id |-> 1, quantity |-> 1]>> >>
    /\ doc_seq = 2
    /\ calls = << >>
    /\ last = IdleCall
    /\ before = Tables
    /\ fresh = [state |-> "created", doc_id |-> 2, stock_qty |-> <<1>>]
    /\ workers = NoWorkers
    /\ selected_variant = NoVariant
    /\ tree = << >>

\* The calls that follow in the oversold database, with room for more documents
NextOversold == NextUpTo(MaxDocs + 1)

SpecOversold == InitOversold /\ [][NextOversold]_vars

\* ------------------------------------------------------ interleaved callers
\* The service takes no lock and every repository method is a transaction of
\* its own, so the calls of two callers on the same database file interleave
\* between repository calls.  A step is one repository call of one caller
\* together with the local computation that follows it.
Step(db, wk) == [db |-> [db EXCEPT !.calls = << >>], wk |-> wk]

Raise(wk, result) == [wk EXCEPT !.pc = "done", !.result = result]

\* Variation of NextItem: the loop stays on the item it has
NextItemRepeats(wk) ==
    IF wk.i + 1 > Len(wk.document.items)
    THEN [wk EXCEPT !.pc = "done", !.i = wk.i + 1]
    ELSE [wk EXCEPT !.pc = "get", !.i = IF wk.i = 0 THEN 1 ELSE wk.i]

\* The next round of a `for item in items` loop that reads and then writes
NextItem(wk) ==
    IF wk.i + 1 > Len(wk.document.items)
    THEN [wk EXCEPT !.pc = "done", !.i = wk.i + 1]
    ELSE [wk EXCEPT !.pc = "get", !.i = wk.i + 1]

\* add_document, then the first round of the loop over saved_doc.items
Saved(db, wk) ==
    LET ad == add_document(db, wk.document)
    IN Step(ad, NextItem([wk EXCEPT !.doc_id = ad.doc_seq, !.i = 0]))

\* create_inbound_order, one repository call at a time
InboundStep(db, wk) ==
    LET item == wk.document.items[wk.i]
        variant == get_variant_by_id(db, item.variant_id)
    IN IF wk.pc = "add_document" THEN Saved(db, wk)
       ELSE IF wk.pc = "get"
       THEN IF variant = NoVariant THEN Step(db, NextItem(wk))
            ELSE Step(db, [wk EXCEPT !.variant = variant, !.pc = "update"])
       ELSE Step(update_variant(db, wk.variant.id,
                                wk.variant.stock_qty + item.quantity),
                 NextItem(wk))

\* create_outbound_order, one repository call at a time
OutboundStep(db, wk) ==
    LET item == wk.document.items[wk.i]
        variant == get_variant_by_id(db, item.variant_id)
    IN IF wk.pc = "add_document" THEN Saved(db, wk)
       ELSE IF wk.pc = "check"
       THEN IF variant = NoVariant THEN Step(db, Raise(wk, EntityNotFoundError))
            ELSE IF variant.stock_qty < item.quantity
            THEN Step(db, Raise(wk, OutOfStockError))
            ELSE IF wk.i + 1 > Len(wk.document.items)
            THEN Step(db, [wk EXCEPT !.pc = "add_document"])
            ELSE Step(db, [wk EXCEPT !.i = wk.i + 1])
       ELSE IF wk.pc = "get"
       THEN IF variant = NoVariant THEN Step(db, Raise(wk, AttributeError))
            ELSE Step(db, [wk EXCEPT !.variant = variant, !.pc = "update"])
       ELSE Step(update_variant(db, wk.variant.id,
                                wk.variant.stock_qty - item.quantity),
                 NextItem(wk))

\* create_adjustment_order, one repository call at a time
AdjustStep(db, wk) ==
    LET item == wk.document.items[wk.i]
        variant == get_variant_by_id(db, item.variant_id)
        new_qty == variant.stock_qty + item.quantity
    IN IF wk.pc = "add_document" THEN Saved(db, wk)
       ELSE IF wk.pc = "get"
       THEN IF variant = NoVariant THEN Step(db, NextItem(wk))
            ELSE IF new_qty < 0 THEN Step(db, Raise(wk, BusinessRuleViolation))
            ELSE Step(db, [wk EXCEPT !.variant = variant, !.pc = "update"])
       ELSE Step(update_variant(db, wk.variant.id,
                                wk.variant.stock_qty + item.quantity),
                 NextItem(wk))

\* The first entry at or after k that step 3 reads a variant for
RECURSIVE NextNegative(_, _)
NextNegative(impacts, k) ==
    IF k > Len(impacts) \/ impacts[k].change < 0 THEN k
    ELSE NextNegative(impacts, k + 1)

\* The first entry at or after k that step 4 reads a variant for
RECURSIVE NextNonzero(_, _)
NextNonzero(impacts, k) ==
    IF k > Len(impacts) \/ impacts[k].change # 0 THEN k
    ELSE NextNonzero(impacts, k + 1)

\* delete_document, step 4 from entry k on, then step 5
ToApply(wk, k) ==
    LET n == NextNonzero(wk.impacts, k)
    IN IF n > Len(wk.impacts) THEN [wk EXCEPT !.pc = "delete_document", !.i = n]
       ELSE [wk EXCEPT !.pc = "get", !.i = n]

\* delete_document, step 3 from entry k on, then step 4
ToCheck(wk, k) ==
    LET n == NextNegative(wk.impacts, k)
    IN IF n > Len(wk.impacts) THEN ToApply(wk, 1)
       ELSE [wk EXCEPT !.pc = "check", !.i = n]

\* delete_document, one repository call at a time
DeleteStep(db, wk) ==
    LET doc == get_document_by_id(db, wk.doc_id)
        vid == wk.impacts[wk.i].variant_id
        change == wk.impacts[wk.i].change
        variant == get_variant_by_id(db, vid)
    IN IF wk.pc = "get_document"
       THEN IF doc = NoDocument THEN Step(db, Raise(wk, EntityNotFoundError))
            ELSE Step(db, ToCheck([wk EXCEPT !.document = doc,
                                             !.impacts = ComputeImpacts(doc, 1, << >>)],
                                  1))
       ELSE IF wk.pc = "check"
       THEN IF variant # NoVariant /\ variant.stock_qty + change < 0
            THEN Step(db, Raise(wk, BusinessRuleViolation))
            ELSE Step(db, ToCheck(wk, wk.i + 1))
       ELSE IF wk.pc = "get"
       THEN IF variant = NoVariant THEN Step(db, ToApply(wk, wk.i + 1))
            ELSE Step(db, [wk EXCEPT !.variant = variant, !.pc = "update"])
       ELSE IF wk.pc = "update"
       THEN Step(update_variant(db, wk.variant.id, wk.variant.stock_qty + change),
                 ToApply(wk, wk.i + 1))
       ELSE Step(delete_document_row(db, wk.doc_id), Raise(wk, OK))

Running(w) == workers[w].pc \notin {"idle", "done"}

\* A caller enters an operation with a document of the operation's type, or
\* enters delete_document with an id
StartWorker(w) ==
    /\ workers[w].pc = "idle"
    /\ \/ \E document \in Document :
            workers' = [workers EXCEPT ![w] =
                [IdleWorker EXCEPT
                    !.op = IF document.doc_type = "INBOUND" THEN "create_inbound_order"
                           ELSE IF document.doc_type = "OUTBOUND"
                           THEN "create_outbound_order"
                           ELSE "create_adjustment_order",
                    !.document = document,
                    !.i = 1,
                    !.pc = IF document.doc_type = "OUTBOUND" /\ document.items # << >>
                           THEN "check" ELSE "add_document"]]
       \/ \E doc_id \in 1..MaxDocs :
            workers' = [workers EXCEPT ![w] =
                [IdleWorker EXCEPT !.op = "delete_document", !.doc_id = doc_id,
                                   !.pc = "get_document"]]
    /\ UNCHANGED <<selected_variant, tree>>
    /\ UNCHANGED <<stock_qty, safety_stock, product_id, documents, document_items,
                   doc_seq, calls, last, before, fresh>>

\* The repository call of caller w takes effect
Take(w, r) ==
    /\ stock_qty' = r.db.stock_qty
    /\ documents' = r.db.documents
    /\ document_items' = r.db.document_items
    /\ doc_seq' = r.db.doc_seq
    /\ workers' = [workers EXCEPT ![w] = r.wk]
    /\ UNCHANGED <<safety_stock, product_id, calls, last, before, fresh,
                   selected_variant, tree>>

StepInbound(w) ==
    /\ Running(w)
    /\ workers[w].op = "create_inbound_order"
    /\ Take(w, InboundStep(Db, workers[w]))

StepOutbound(w) ==
    /\ Running(w)
    /\ workers[w].op = "create_outbound_order"
    /\ Take(w, OutboundStep(Db, workers[w]))

StepAdjustment(w) ==
    /\ Running(w)
    /\ workers[w].op = "create_adjustment_order"
    /\ Take(w, AdjustStep(Db, workers[w]))

StepDelete(w) ==
    /\ Running(w)
    /\ workers[w].op = "delete_document"
    /\ Take(w, DeleteStep(Db, workers[w]))

\* The database after handle_add_variant and an inbound of 1 on the new variant,
\* opened by MaxWorkers callers
InitConcurrent ==
    /\ stock_qty = <<1>>
    /\ safety_stock = <<DefaultSafetyStock>>
    /\ product_id = <<1>>
    /\ documents = <<"INBOUND">>
    /\ document_items = << <<[variant_id |-> 1, quantity |-> 1]>> >>
    /\ doc_seq = 1
    /\ calls = << >>
    /\ last = IdleCall
    /\ before = Tables
    /\ fresh = NoFresh
    /\ workers = NoWorkers
    /\ selected_variant = NoVariant
    /\ tree = << >>

NextConcurrent ==
    \E w \in Workers :
        \/ StartWorker(w)
        \/ StepInbound(w)
        \/ StepOutbound(w)
        \/ StepAdjustment(w)
        \/ StepDelete(w)

SpecConcurrent == InitConcurrent /\ [][NextConcurrent]_vars

\* ------------------------------------------------- catalogue and queries
\* The ids of a set in ascending and in descending order
RECURSIVE Ascending(_)
Ascending(ids) ==
    IF ids = {} THEN << >>
    ELSE LET least == CHOOSE x \in ids : \A y \in ids : x <= y
         IN <<least>> \o Ascending(ids \ {least})

RECURSIVE Descending(_)
Descending(ids) ==
    IF ids = {} THEN << >>
    ELSE LET greatest == CHOOSE x \in ids : \A y \in ids : x >= y
         IN <<greatest>> \o Descending(ids \ {greatest})

\* SqliteProductRepository.get_all_products: SELECT ... ORDER BY id DESC
get_all_products == Descending(Products)

\* SqliteProductRepository.get_variants_by_product_id: the rows of one product
get_variants_by_product_id(product) ==
    LET ids == Ascending({v \in DOMAIN stock_qty : product_id[v] = product})
    IN [k \in 1..Len(ids) |->
           [id |-> ids[k], product_id |-> product,
            stock_qty |-> stock_qty[ids[k]], safety_stock |-> safety_stock[ids[k]]]]

\* Variation of is_low_stock: a stock at the threshold is not reported
is_low_stockBelowOnly(variant) == variant.stock_qty < variant.safety_stock

\* Variant.is_low_stock
is_low_stock(variant) == variant.stock_qty <= variant.safety_stock

\* InventoryService.get_low_stock_variants: every product, every variant of it
RECURSIVE LowStockOf(_, _)
LowStockOf(all_products, n) ==
    IF n > Len(all_products) THEN << >>
    ELSE SelectSeq(get_variants_by_product_id(all_products[n]), is_low_stock)
         \o LowStockOf(all_products, n + 1)

get_low_stock_variants == LowStockOf(get_all_products, 1)

\* SqliteDocumentRepository.get_all_documents: headers only, newest id first;
\* doc_type "None" stands for no filter
get_all_documents(doc_type) ==
    LET ids == Descending({d \in DOMAIN documents :
                              doc_type = "None" \/ documents[d] = doc_type})
    IN [k \in 1..Len(ids) |->
           [id |-> ids[k], doc_type |-> documents[ids[k]], items |-> << >>]]

\* A query returned: nothing is written
Answer(op, doc_type, doc_id, returned) ==
    /\ last' = [op |-> op, document |-> [doc_type |-> doc_type, items |-> << >>],
                doc_id |-> doc_id, result |-> OK, returned |-> returned]
    /\ before' = Tables
    /\ calls' = << >>
    /\ fresh' = NoFresh
    /\ UNCHANGED <<selected_variant, tree>>
    /\ UNCHANGED <<stock_qty, safety_stock, product_id, documents, document_items,
                   doc_seq, workers>>

\* The dashboard of the main window: InventoryService.get_low_stock_variants
GetLowStockVariants ==
    /\ Idle
    /\ Answer("get_low_stock_variants", "None", 0, get_low_stock_variants)

\* DocumentListPresenter.load_documents: InventoryService.get_documents
GetDocuments ==
    /\ Idle
    /\ \E doc_type \in DocTypes \cup {"None"} :
           Answer("get_documents", doc_type, 0, get_all_documents(doc_type))

\* DocumentListPresenter.open_document_detail: InventoryService.get_document_detail
GetDocumentDetail(cap) ==
    /\ Idle
    /\ \E doc_id \in 1..cap :
           Answer("get_document_detail", "None", doc_id,
                  get_document_by_id(Db, doc_id))

\* Variation of ProtectedStock: the placeholder of the form object is kept
ProtectedStockFromForm(db, variant) == variant.stock_qty

\* InventoryService.update_variant: the stored stock replaces the placeholder
\* stock_qty of the object built by the presenter
ProtectedStock(db, variant) == get_variant_by_id(db, variant.id).stock_qty

\* VariantPresenter.handle_update_variant: the selected variant gets the
\* safety_stock of the form; the object is built with stock_qty = 0
UpdateVariant ==
    /\ Idle
    /\ \E selected \in DOMAIN stock_qty : \E t \in SafetyStocks :
           LET variant == [id |-> selected, stock_qty |-> 0, safety_stock |-> t]
           IN /\ Finish("update_variant", NoDocument, selected,
                        Return(update_variant(Db, selected, ProtectedStock(Db, variant)),
                               OK))
              /\ safety_stock' = [safety_stock EXCEPT ![selected] = t]
    /\ fresh' = NoFresh
    /\ UNCHANGED product_id

\* The catalogue windows next to the transaction windows, one document long
NextCatalog ==
    \/ AddVariantOf(Products, SafetyStocks)
    \/ UpdateVariant
    \/ GetLowStockVariants
    \/ GetDocuments
    \/ GetDocumentDetail(MaxDocs - 1)
    \/ CreateInbound(MaxDocs - 1)
    \/ CreateOutbound(MaxDocs - 1)
    \/ CreateAdjustment(MaxDocs - 1)
    \/ DeleteDocument(MaxDocs - 1)
    \/ Acknowledge

SpecCatalog == Init /\ [][NextCatalog]_vars

\* ------------------------------------------------------- the store ports
\* The statements of add_document's transaction: the INSERT of the header, then
\* one INSERT per item (executemany)
Statements(document) == 1 + Len(document.items)

\* The tables inside the transaction once its first n statements have run
InTransaction(db, document, n) ==
    IF n = 0 THEN db
    ELSE LET new_doc_id == db.doc_seq + 1
         IN [db EXCEPT !.documents = new_doc_id :> document.doc_type @@ @,
                       !.document_items =
                           new_doc_id :> SubSeq(document.items, 1, n - 1) @@ @,
                       !.doc_seq = new_doc_id,
                       !.calls = @ \o [k \in 1..n |-> <<"execute", k>>]]

\* Variation of Rollback: what the transaction wrote stays
RollbackKeepsWritten(db, written) == written

\* `with conn:` left by an exception: the connection rolls the transaction back
Rollback(db, written) == [db EXCEPT !.calls = written.calls]

\* SqliteDocumentRepository.add_document with the statement that raises
\* sqlite3.Error (0: none does); the error is raised again as RepositoryError
add_document_transaction(db, document, failing) ==
    IF failing = 0
    THEN Return(InTransaction(db, document, Statements(document)), OK)
    ELSE Return(Rollback(db, InTransaction(db, document, failing - 1)),
                RepositoryError)

\* Variation of rowcount: the UPDATE always reports a row
rowcountAlwaysOne(db, variant_id) == 1

\* cursor.rowcount of UPDATE variants ... WHERE id = ?
rowcount(db, variant_id) == IF variant_id \in DOMAIN db.stock_qty THEN 1 ELSE 0

\* SqliteProductRepository.update_variant with its outcome; id 0 stands for None
update_variant_outcome(db, variant) ==
    IF variant.id = NoVariant.id THEN Return(db, RepositoryError)
    ELSE IF rowcount(db, variant.id) = 0
         THEN Return(update_variant(db, variant.id, variant.stock_qty),
                     EntityNotFoundError)
         ELSE Return(update_variant(db, variant.id, variant.stock_qty), OK)

\* A caller of IDocumentRepository.add_document
StoreAddDocument(cap) ==
    /\ Idle
    /\ \E document \in Document : \E failing \in 0..Statements(document) :
           LET r == add_document_transaction(Db, document, failing)
           IN /\ r.db.doc_seq <= cap
              /\ Finish("store.add_document", document,
                        IF r.result = OK THEN r.db.doc_seq ELSE 0, r)
    /\ fresh' = NoFresh
    /\ UNCHANGED <<safety_stock, product_id>>

\* A caller of IProductRepository.update_variant
StoreUpdateVariant ==
    /\ Idle
    /\ \E id \in 0..MaxVariants : \E qty \in 0..MaxQty : \E t \in SafetyStocks :
           LET variant == [id |-> id, stock_qty |-> qty, safety_stock |-> t]
               r == update_variant_outcome(Db, variant)
           IN /\ Finish("store.update_variant", NoDocument, id, r)
              /\ safety_stock' = IF r.result = OK /\ id \in DOMAIN safety_stock
                                 THEN [safety_stock EXCEPT ![id] = t]
                                 ELSE safety_stock
    /\ fresh' = NoFresh
    /\ UNCHANGED product_id

\* The two repositories called directly
NextStore ==
    \/ AddVariant
    \/ StoreUpdateVariant
    \/ StoreAddDocument(MaxDocs - 1)
    \/ Acknowledge

SpecStore == Init /\ [][NextStore]_vars

\* ------------------------------------------------- failing repository calls
\* Every repository method raises RepositoryError for a sqlite3.Error, and the
\* service methods have no try/except around their repository calls.
\* The step of the operation the caller is in
StepOf(db, wk) ==
    IF wk.op = "create_inbound_order" THEN InboundStep(db, wk)
    ELSE IF wk.op = "create_outbound_order" THEN OutboundStep(db, wk)
    ELSE IF wk.op = "create_adjustment_order" THEN AdjustStep(db, wk)
    ELSE DeleteStep(db, wk)

\* Variation of Raised: the writes of the operation so far are taken back
RaisedCompensated(db, wk) ==
    Step([db EXCEPT !.stock_qty = before.stock_qty,
                    !.documents = before.documents,
                    !.document_items = before.document_items],
         Raise(wk, RepositoryError))

\* The repository call raised: its own transaction wrote nothing, and the
\* exception leaves the service method
Raised(db, wk) == Step(db, Raise(wk, RepositoryError))

\* The repository call of the caller, with its outcome, is logged in calls
TakeLogged(w, r, outcome) ==
    /\ stock_qty' = r.db.stock_qty
    /\ documents' = r.db.documents
    /\ document_items' = r.db.document_items
    /\ doc_seq' = r.db.doc_seq
    /\ workers' = [workers EXCEPT ![w] = r.wk]
    /\ calls' = Append(calls, <<workers[w].pc, workers[w].i, outcome>>)
    /\ UNCHANGED <<safety_stock, product_id, last, before, fresh,
                   selected_variant, tree>>

CallReturns ==
    /\ Running(1)
    /\ TakeLogged(1, StepOf(Db, workers[1]), "returned")

CallRaises ==
    /\ Running(1)
    /\ TakeLogged(1, Raised(Db, workers[1]), "raised")

\* The database after two variants were added and one inbound document put 1
\* on each
InitFaulty ==
    /\ stock_qty = <<1, 1>>
    /\ safety_stock = <<DefaultSafetyStock, DefaultSafetyStock>>
    /\ product_id = <<1, 1>>
    /\ documents = <<"INBOUND">>
    /\ document_items = << <<[variant_id |-> 1, quantity |-> 1],
                             [variant_id |-> 2, quantity |-> 1]>> >>
    /\ doc_seq = 1
    /\ calls = << >>
    /\ last = IdleCall
    /\ before = Tables
    /\ fresh = NoFresh
    /\ workers = NoWorkers
    /\ selected_variant = NoVariant
    /\ tree = << >>

NextFaulty ==
    \/ StartWorker(1)
    \/ CallReturns
    \/ CallRaises

SpecFaulty == InitFaulty /\ [][NextFaulty]_vars

\* A service method is synchronous code on the caller's thread: whenever a
\* repository call is pending it returns or raises
SpecTerminating ==
    InitFaulty /\ [][NextFaulty]_vars /\ WF_vars(CallReturns \/ CallRaises)

\* ------------------------------------------------------ stock count window
\* The quantities a caller can type as counted: the view rejects negatives
ActualQuantities == 0..MaxActualQty

\* AdjustmentPresenter.handle_add_item: the list entry for the counted quantity,
\* against the stock_qty of the variant as it was read at selection
Entry(variant, actual_qty) ==
    [variant_id |-> variant.id, system_qty |-> variant.stock_qty,
     actual_qty |-> actual_qty, quantity |-> actual_qty - variant.stock_qty]

\* AdjustmentPresenter.handle_submit: one DocumentItem per list entry, carrying
\* the entry's difference
CountDocument(entries) ==
    [doc_type |-> "ADJUST",
     items |-> [k \in DOMAIN entries |->
                   [variant_id |-> entries[k].variant_id,
                    quantity |-> entries[k].quantity]]]

\* AdjustmentPresenter.handle_product_select
SelectProduct ==
    /\ Idle
    /\ selected_variant # NoVariant
    /\ selected_variant' = NoVariant
    /\ UNCHANGED <<stock_qty, safety_stock, product_id, documents, document_items,
                   doc_seq, calls, last, before, fresh, workers, tree>>

\* AdjustmentPresenter.handle_variant_select: the variant is read again; a
\* variant that is gone leaves the selection as it was
SelectVariant ==
    /\ Idle
    /\ \E variant_id \in DOMAIN stock_qty :
           LET fresh_variant == get_variant_by_id(Db, variant_id)
           IN selected_variant' = IF fresh_variant # NoVariant THEN fresh_variant
                                  ELSE selected_variant
    /\ UNCHANGED <<stock_qty, safety_stock, product_id, documents, document_items,
                   doc_seq, calls, last, before, fresh, workers, tree>>

\* AdjustmentPresenter.handle_add_item
AddItem ==
    /\ Idle
    /\ selected_variant # NoVariant
    /\ Len(tree) < MaxItems
    /\ \E actual_qty \in ActualQuantities :
           tree' = Append(tree, Entry(selected_variant, actual_qty))
    /\ UNCHANGED <<stock_qty, safety_stock, product_id, documents, document_items,
                   doc_seq, calls, last, before, fresh, workers, selected_variant>>

\* AdjustmentPresenter.handle_submit: an empty list only shows a warning; the
\* list and the selection are cleared when the service call returned
Submit(cap) ==
    /\ Idle
    /\ tree # << >>
    /\ LET document == CountDocument(tree)
           r == create_adjustment_order(Db, document)
       IN /\ r.db.doc_seq <= cap
          /\ stock_qty' = r.db.stock_qty
          /\ documents' = r.db.documents
          /\ document_items' = r.db.document_items
          /\ doc_seq' = r.db.doc_seq
          /\ calls' = r.db.calls
          /\ last' = [op |-> "handle_submit", document |-> document,
                      doc_id |-> IF r.db.doc_seq > doc_seq THEN r.db.doc_seq ELSE 0,
                      result |-> r.result, returned |-> tree]
          /\ tree' = IF r.result = OK THEN << >> ELSE tree
          /\ selected_variant' = IF r.result = OK THEN NoVariant ELSE selected_variant
    /\ before' = Tables
    /\ fresh' = NoFresh
    /\ UNCHANGED <<safety_stock, product_id, workers>>

\* The stock count window next to the variant and inbound windows
NextStockCount ==
    \/ AddVariant
    \/ CreateInbound(MaxDocs - 1)
    \/ SelectProduct
    \/ SelectVariant
    \/ AddItem
    \/ Submit(MaxDocs)
    \/ Acknowledge

SpecStockCount == Init /\ [][NextStockCount]_vars

\* ------------------------------------------------------------------- claims
\* What a returned call is measured against: the draft it was given, the
\* tables before it, and sums taken directly over item lists
RECURSIVE SumQty(_, _, _)
SumQty(items, variant_id, i) ==
    IF i > Len(items) THEN 0
    ELSE (IF items[i].variant_id = variant_id THEN items[i].quantity ELSE 0)
         + SumQty(items, variant_id, i + 1)

Existed(variant_id) == variant_id \in DOMAIN before.stock_qty
Missing(item) == ~Existed(item.variant_id)
Short(item) == Existed(item.variant_id) /\ item.quantity > before.stock_qty[item.variant_id]

Returned(op, doc_type) == last.op = op /\ last.document.doc_type = doc_type
DraftItems == last.document.items
NothingChanged == Tables = before

\* The new document row and its item rows are the only change to the two
\* document tables
Persisted(doc_type) ==
    /\ last.doc_id \notin DOMAIN before.documents
    /\ DOMAIN documents = DOMAIN before.documents \cup {last.doc_id}
    /\ DOMAIN document_items = DOMAIN before.document_items \cup {last.doc_id}
    /\ documents[last.doc_id] = doc_type
    /\ document_items[last.doc_id] = DraftItems
    /\ \A d \in DOMAIN before.documents :
           /\ documents[d] = before.documents[d]
           /\ document_items[d] = before.document_items[d]

\* C1 (as stated): every variant's stock_qty is >= 0 whenever control is back
\* with the caller, after any sequence of create and delete calls.
C1_StockNeverNegative ==
    \A v \in DOMAIN stock_qty : stock_qty[v] >= 0

\* C2 (as stated): an OUTBOUND document with an item whose quantity exceeds the
\* stock of its variant makes create_outbound_order fail with OutOfStock and
\* change nothing.
C2_InsufficientAlwaysOutOfStock ==
    (/\ Returned("create_outbound_order", "OUTBOUND")
     /\ \E i \in 1..Len(DraftItems) : Short(DraftItems[i]))
    => (last.result = OutOfStockError /\ NothingChanged)

FirstShort == CHOOSE i \in 1..Len(DraftItems) :
                  /\ Short(DraftItems[i])
                  /\ \A j \in 1..(i - 1) : ~Short(DraftItems[j])

\* C2 (amended): such a call fails and changes neither any stock nor the stored
\* documents, wherever the item stands; the error is OutOfStock unless an item
\* before the first insufficient one references a missing variant, and then
\* EntityNotFound.
C2_InsufficientOutboundRejected ==
    (/\ Returned("create_outbound_order", "OUTBOUND")
     /\ \E i \in 1..Len(DraftItems) : Short(DraftItems[i]))
    => /\ NothingChanged
       /\ last.result = IF \E j \in 1..(FirstShort - 1) : Missing(DraftItems[j])
                        THEN EntityNotFoundError
                        ELSE OutOfStockError

\* C2 witness: a rejected outbound whose second item is the insufficient one
C2_Witness ==
    /\ Returned("create_outbound_order", "OUTBOUND")
    /\ last.result = OutOfStockError
    /\ Len(DraftItems) = 2
    /\ ~Short(DraftItems[1])
    /\ Short(DraftItems[2])

\* C3 (as stated): an OUTBOUND document with an item on a missing variant makes
\* create_outbound_order fail with EntityNotFound and change nothing.
C3_MissingAlwaysEntityNotFound ==
    (/\ Returned("create_outbound_order", "OUTBOUND")
     /\ \E i \in 1..Len(DraftItems) : Missing(DraftItems[i]))
    => (last.result = EntityNotFoundError /\ NothingChanged)

FirstMissing == CHOOSE i \in 1..Len(DraftItems) :
                    /\ Missing(DraftItems[i])
                    /\ \A j \in 1..(i - 1) : ~Missing(DraftItems[j])

\* C3 (amended): such a call fails and changes neither any stock nor the stored
\* documents; the error is EntityNotFound unless an item before the first
\* missing one asks for more than its variant's stock, and then OutOfStock.
C3_MissingVariantOutboundRejected ==
    (/\ Returned("create_outbound_order", "OUTBOUND")
     /\ \E i \in 1..Len(DraftItems) : Missing(DraftItems[i]))
    => /\ NothingChanged
       /\ last.result = IF \E j \in 1..(FirstMissing - 1) : Short(DraftItems[j])
                        THEN OutOfStockError
                        ELSE EntityNotFoundError

\* C3 witness: a rejected outbound whose second item references the missing
\* variant while the first item is covered by stock
C3_Witness ==
    /\ Returned("create_outbound_order", "OUTBOUND")
    /\ last.result = EntityNotFoundError
    /\ Len(DraftItems) = 2
    /\ Existed(DraftItems[1].variant_id)
    /\ Missing(DraftItems[2])

\* C4 (as stated): after an outbound that passed the pre-check each variant's
\* stock is its prior stock minus the quantities of the items referencing it,
\* and no resulting stock is negative.
C4_OutboundDecreasesExactly ==
    (Returned("create_outbound_order", "OUTBOUND") /\ last.result = OK)
    => \A v \in DOMAIN before.stock_qty :
           /\ stock_qty[v] = before.stock_qty[v] - SumQty(DraftItems, v, 1)
           /\ stock_qty[v] >= 0

\* C5: after a successful create_inbound_order every existing variant has its
\* prior stock plus the summed quantities of the items referencing it, and the
\* document is persisted.
C5_InboundIncreasesExactly ==
    (Returned("create_inbound_order", "INBOUND") /\ last.result = OK)
    => /\ DOMAIN stock_qty = DOMAIN before.stock_qty
       /\ \A v \in DOMAIN before.stock_qty :
              stock_qty[v] = before.stock_qty[v] + SumQty(DraftItems, v, 1)
       /\ Persisted("INBOUND")

\* C5 witness: a successful inbound listing one existing variant twice
C5_Witness ==
    /\ Returned("create_inbound_order", "INBOUND")
    /\ last.result = OK
    /\ Len(DraftItems) = 2
    /\ DraftItems[1].variant_id = DraftItems[2].variant_id
    /\ Existed(DraftItems[1].variant_id)

\* The reversal of one quantity, and a variant's net impact over item rows
Reversal(doc_type, quantity) ==
    IF doc_type = "OUTBOUND" THEN quantity ELSE 0 - quantity

RECURSIVE NetImpact(_, _, _, _)
NetImpact(doc_type, items, variant_id, i) ==
    IF i > Len(items) THEN 0
    ELSE (IF items[i].variant_id = variant_id
          THEN Reversal(doc_type, items[i].quantity) ELSE 0)
         + NetImpact(doc_type, items, variant_id, i + 1)

\* delete_document returned, and its id named a stored document
DeletedStored ==
    last.op = "delete_document" /\ last.doc_id \in DOMAIN before.documents

Impact(variant_id) ==
    NetImpact(before.documents[last.doc_id], before.document_items[last.doc_id],
              variant_id, 1)

Overdrawn(variant_id) ==
    /\ Existed(variant_id)
    /\ Impact(variant_id) < 0
    /\ before.stock_qty[variant_id] + Impact(variant_id) < 0

\* C6: if the net rollback impact of some variant is negative and exceeds its
\* current stock, delete_document fails with BusinessRuleViolation, no variant's
\* stock changes and the document still exists with its items.
C6_OverdrawnRollbackRejected ==
    (DeletedStored /\ \E v \in VariantIds : Overdrawn(v))
    => (last.result = BusinessRuleViolation /\ NothingChanged)

\* C6 witness: a rejected deletion in which one variant passed the check before
\* another one failed it
C6_Witness ==
    /\ DeletedStored
    /\ last.result = BusinessRuleViolation
    /\ \E v, w \in VariantIds :
           /\ Existed(v) /\ Impact(v) < 0 /\ ~Overdrawn(v)
           /\ Overdrawn(w)
           /\ calls = << <<"get_document_by_id", last.doc_id>>,
                         <<"get_variant_by_id", v>>, <<"get_variant_by_id", w>> >>

\* C7: when delete_document passes the strict check, each variant's stock is its
\* prior stock plus the net impact, variants with net impact zero are not
\* written, and the header and item rows are removed after the stock writes.
C7_RollbackApplied ==
    (DeletedStored /\ last.result = OK)
    => /\ DOMAIN stock_qty = DOMAIN before.stock_qty
       /\ \A v \in DOMAIN before.stock_qty :
              stock_qty[v] = before.stock_qty[v] + Impact(v)
       /\ \A v \in VariantIds : \A k \in 1..Len(calls) :
              (Impact(v) = 0 /\ calls[k][1] = "update_variant") => calls[k][2] # v
       /\ documents = Without(before.documents, last.doc_id)
       /\ document_items = Without(before.document_items, last.doc_id)
       /\ calls[Len(calls)] = <<"delete_document", last.doc_id>>

\* C7 witness: a deletion that lowered the stock of one variant
C7_Witness ==
    /\ DeletedStored
    /\ last.result = OK
    /\ \E v \in VariantIds : Existed(v) /\ Impact(v) < 0

\* C8: delete_document with an id that is not a stored document fails with
\* EntityNotFound and changes neither any stock nor the stored documents.
C8_UnknownDocumentRejected ==
    (last.op = "delete_document" /\ last.doc_id \notin DOMAIN before.documents)
    => (last.result = EntityNotFoundError /\ NothingChanged)

\* C8 witness: an unknown id was given while another document was stored
C8_Witness ==
    /\ last.op = "delete_document"
    /\ last.doc_id \notin DOMAIN before.documents
    /\ DOMAIN before.documents # {}

\* The creation recorded in fresh referenced existing variants only
FreshAllExisted ==
    \A i \in 1..Len(before.document_items[last.doc_id]) :
        before.document_items[last.doc_id][i].variant_id \in DOMAIN fresh.stock_qty

\* C9 (as stated): deleting a document right after its successful creation (all
\* referenced variants existing) succeeds and restores every variant's stock_qty.
C9_CreateDeleteRoundTrip ==
    (last.op = "delete_document" /\ fresh.state = "deleting" /\ FreshAllExisted)
    => (last.result = OK /\ stock_qty = fresh.stock_qty)

\* C10 (as stated): a create_adjustment_order rejected for a negative result
\* leaves the stored documents and every stock as they were before the call.
C10_RejectedAdjustmentLeavesNothing ==
    (Returned("create_adjustment_order", "ADJUST")
     /\ last.result = BusinessRuleViolation)
    => NothingChanged

\* The stock of the variant of item n once items 1..n have been applied
AfterItem(n) ==
    before.stock_qty[DraftItems[n].variant_id]
    + SumQty(SubSeq(DraftItems, 1, n), DraftItems[n].variant_id, 1)

\* C11: after a successful create_adjustment_order every existing variant has
\* its prior stock plus the signed quantities of the items referencing it, and
\* the call succeeds only if the result of every item was >= 0.
C11_AdjustmentAppliesSignedSum ==
    (Returned("create_adjustment_order", "ADJUST") /\ last.result = OK)
    => /\ DOMAIN stock_qty = DOMAIN before.stock_qty
       /\ \A v \in DOMAIN before.stock_qty :
              stock_qty[v] = before.stock_qty[v] + SumQty(DraftItems, v, 1)
       /\ \A n \in 1..Len(DraftItems) :
              Existed(DraftItems[n].variant_id) => AfterItem(n) >= 0

\* C11 witness: a successful adjustment that raises and then lowers one variant
C11_Witness ==
    /\ Returned("create_adjustment_order", "ADJUST")
    /\ last.result = OK
    /\ Len(DraftItems) = 2
    /\ DraftItems[1].variant_id = DraftItems[2].variant_id
    /\ Existed(DraftItems[1].variant_id)
    /\ DraftItems[1].quantity > 0
    /\ DraftItems[2].quantity < 0

\* The doc_type each operation accepts
TypeOf(op) ==
    IF op = "create_inbound_order" THEN "INBOUND"
    ELSE IF op = "create_outbound_order" THEN "OUTBOUND"
    ELSE "ADJUST"

CreateOps == {"create_inbound_order", "create_outbound_order",
              "create_adjustment_order"}

\* C12: each create operation rejects a document of another doc_type before any
\* repository call, so no stock and no stored document changes.
C12_WrongTypeRejectedBeforeStores ==
    (last.op \in CreateOps /\ last.document.doc_type # TypeOf(last.op))
    => /\ last.result # OK
       /\ calls = << >>
       /\ NothingChanged

\* C12 witness: an INBOUND document with an item on a stocked variant was handed
\* to create_outbound_order
C12_Witness ==
    /\ last.op = "create_outbound_order"
    /\ last.document.doc_type = "INBOUND"
    /\ Len(DraftItems) = 1
    /\ Existed(DraftItems[1].variant_id)
    /\ before.stock_qty[DraftItems[1].variant_id] >= DraftItems[1].quantity

\* C13: create_inbound_order with an item on a missing variant does not fail:
\* the document is persisted, that item has no stock effect and every item on an
\* existing variant still raises its stock.
C13_InboundSkipsMissingVariant ==
    (/\ Returned("create_inbound_order", "INBOUND")
     /\ \E i \in 1..Len(DraftItems) : Missing(DraftItems[i]))
    => /\ last.result = OK
       /\ Persisted("INBOUND")
       /\ DOMAIN stock_qty = DOMAIN before.stock_qty
       /\ \A i \in 1..Len(DraftItems) :
              Existed(DraftItems[i].variant_id) =>
                  stock_qty[DraftItems[i].variant_id]
                      = before.stock_qty[DraftItems[i].variant_id]
                        + SumQty(DraftItems, DraftItems[i].variant_id, 1)

\* C13 witness: the item on the missing variant comes first and an item on an
\* existing variant follows it
C13_Witness ==
    /\ Returned("create_inbound_order", "INBOUND")
    /\ Len(DraftItems) = 2
    /\ Missing(DraftItems[1])
    /\ Existed(DraftItems[2].variant_id)

\* Ids that were handed out and whose document has since been deleted
Deleted(docs) == (1..doc_seq) \ DOMAIN docs

\* No step edits a stored document, and a deleted id stays deleted
PersistedThenDeletedOnly ==
    /\ \A d \in DOMAIN documents \cap DOMAIN documents' :
           /\ documents'[d] = documents[d]
           /\ document_items'[d] = document_items[d]
    /\ \A d \in DOMAIN documents' \ DOMAIN documents : d > doc_seq
    /\ Deleted(documents) \subseteq (1..doc_seq') \ DOMAIN documents'

\* A deleted document cannot be retrieved or deleted again
DeletedIsFinal ==
    /\ (last.op = "delete_document" /\ last.result = OK)
           => get_document_by_id(Db, last.doc_id) = NoDocument
    /\ (last.op = "delete_document" /\ last.doc_id \in Deleted(before.documents))
           => (last.result = EntityNotFoundError /\ NothingChanged)

\* C14: a document only moves DRAFT -> PERSISTED -> DELETED: no operation changes
\* the type or items of a persisted document, a deleted document is no longer
\* retrievable, and deleting its id again fails with EntityNotFound without
\* changing any stock.
C14_DocumentLifecycle ==
    []DeletedIsFinal /\ [][PersistedThenDeletedOnly]_vars

\* C14 witness: delete_document was called again for an id whose document had
\* been deleted before, while stock was on hand
C14_Witness ==
    /\ last.op = "delete_document"
    /\ last.doc_id \in Deleted(before.documents)
    /\ \E v \in DOMAIN stock_qty : stock_qty[v] > 0

\* Item rows of the document being deleted that reference variant_id
ItemsOn(variant_id) ==
    {i \in 1..Len(before.document_items[last.doc_id]) :
        before.document_items[last.doc_id][i].variant_id = variant_id}

CallsOf(name, variant_id) ==
    {k \in 1..Len(calls) : calls[k][1] = name /\ calls[k][2] = variant_id}

\* C15: in delete_document the items on one variant are summed into one net
\* impact, which is validated once against the current stock and applied with
\* one write.
C15_NetImpactAggregated ==
    DeletedStored =>
        \A v \in DOMAIN before.stock_qty :
            Cardinality(ItemsOn(v)) >= 2 =>
                /\ Cardinality(CallsOf("update_variant", v)) <= 1
                /\ Cardinality(CallsOf("get_variant_by_id", v)) <= 2
                /\ \A k \in CallsOf("update_variant", v) :
                       calls[k][3] = before.stock_qty[v] + Impact(v)
                /\ Overdrawn(v) => last.result = BusinessRuleViolation
                /\ (last.result = OK /\ Impact(v) # 0) =>
                       Cardinality(CallsOf("update_variant", v)) = 1

\* C15 witness: a deletion rejected for the sum of two items that the stock
\* would have covered one at a time
C15_Witness ==
    /\ DeletedStored
    /\ last.result = BusinessRuleViolation
    /\ \E v \in DOMAIN before.stock_qty :
           /\ Cardinality(ItemsOn(v)) = 2
           /\ Overdrawn(v)
           /\ \A i \in ItemsOn(v) :
                  before.stock_qty[v]
                      - before.document_items[last.doc_id][i].quantity >= 0

\* C16: a deletion whose net impact is zero or positive for every variant is
\* never rejected, whatever the current stock and whatever documents were
\* created after it.
C16_IncreasingRollbackNeverRejected ==
    (DeletedStored /\ \A v \in VariantIds : Impact(v) >= 0)
    => last.result = OK

\* C16 witness: an OUTBOUND document was deleted after a later document had been
\* created, and the deletion raised a stock
C16_Witness ==
    /\ DeletedStored
    /\ last.result = OK
    /\ before.documents[last.doc_id] = "OUTBOUND"
    /\ \E d \in DOMAIN before.documents : d > last.doc_id
    /\ \E v \in VariantIds : Impact(v) > 0

\* C17 (as stated): if an item of the document references a variant that is not
\* in the variants table, delete_document fails, no stock is mutated and the
\* document is not removed.
C17_MissingVariantFailsDeletion ==
    (/\ DeletedStored
     /\ \E i \in 1..Len(before.document_items[last.doc_id]) :
            Missing(before.document_items[last.doc_id][i]))
    => (last.result # OK /\ NothingChanged)

\* Both callers are inside, or have returned from, the operation op
BothIn(op) == \A w \in Workers : workers[w].op = op

\* No variant is listed twice in the items
NoRepeat(items) ==
    \A i, j \in 1..Len(items) : items[i].variant_id = items[j].variant_id => i = j

\* C18 (as stated): when two create_outbound_order calls run with their
\* repository calls interleaved, each listing a variant at most once, no
\* variant's stock becomes negative.
C18_ConcurrentOutboundNeverOversells ==
    (BothIn("create_outbound_order")
     /\ \A w \in Workers : NoRepeat(workers[w].document.items))
    => \A v \in DOMAIN stock_qty : stock_qty[v] >= 0

\* The database when the callers entered, and one caller's operation run on
\* its own from start to end
Base == [stock_qty |-> before.stock_qty, documents |-> before.documents,
         document_items |-> before.document_items,
         doc_seq |-> Cardinality(DOMAIN before.documents), calls |-> << >>]

Alone(db, wk) ==
    IF wk.op = "create_inbound_order" THEN create_inbound_order(db, wk.document).db
    ELSE IF wk.op = "create_outbound_order"
    THEN create_outbound_order(db, wk.document).db
    ELSE IF wk.op = "create_adjustment_order"
    THEN create_adjustment_order(db, wk.document).db
    ELSE delete_document(db, wk.doc_id).db

Serial(first, second) == Alone(Alone(Base, workers[first]), workers[second])

\* C19 (as stated): when two operations have run concurrently, every variant's
\* final stock is what running the two operations in one of the two serial
\* orders gives.
C19_ConcurrentCallsSerializable ==
    (\A w \in Workers : workers[w].pc = "done")
    => \E first, second \in Workers :
           /\ first # second
           /\ stock_qty = Serial(first, second).stock_qty

\* C20 (as stated): when two delete_document calls run concurrently, no
\* document is rolled back by both of them and no stock goes negative.
C20_ConcurrentDeleteRollsBackOnce ==
    BothIn("delete_document")
    => /\ \A v \in DOMAIN stock_qty : stock_qty[v] >= 0
       /\ \A w, x \in Workers :
              (/\ w # x
               /\ workers[w].doc_id = workers[x].doc_id
               /\ workers[w].pc = "done" /\ workers[w].result = OK
               /\ workers[x].pc = "done")
              => workers[x].result # OK

\* Positions in the repository calls of the call that just returned
Calls(name) == {k \in 1..Len(calls) : calls[k][1] = name}

\* C25: delete_document computes all impacts, validates all, mutates all and
\* then deletes: every variant with a negative impact has been read and found
\* sufficient before the first variant write, and the document is removed by
\* the last repository call, after every stock write.
C25_DeleteValidatesThenMutates ==
    DeletedStored =>
        /\ calls[1] = <<"get_document_by_id", last.doc_id>>
        /\ \A u \in Calls("update_variant") :
               \A v \in DOMAIN before.stock_qty :
                   Impact(v) < 0 =>
                       /\ before.stock_qty[v] + Impact(v) >= 0
                       /\ \E c \in CallsOf("get_variant_by_id", v) :
                              /\ c < u
                              /\ \A w \in Calls("update_variant") : c < w
        /\ \A d \in Calls("delete_document") :
               /\ d = Len(calls)
               /\ \A v \in DOMAIN before.stock_qty :
                      Impact(v) # 0 => \E u \in CallsOf("update_variant", v) : u < d
        /\ last.result # OK =>
               Calls("update_variant") \cup Calls("delete_document") = {}
        /\ last.result = OK => Calls("delete_document") # {}

\* C25 witness: a deletion that lowered two variants, both validated before
\* the first write
C25_Witness ==
    /\ DeletedStored
    /\ last.result = OK
    /\ \E v, w \in DOMAIN before.stock_qty :
           /\ v # w /\ Impact(v) < 0 /\ Impact(w) < 0
           /\ Len(calls) = 8
           /\ calls[2][1] = "get_variant_by_id"
           /\ calls[3][1] = "get_variant_by_id"
           /\ calls[5][1] = "update_variant"

\* C26: create_outbound_order reads the variant of every item in the pre-check,
\* persists the document only after all items passed, and makes the first
\* stock decrement only after the document was persisted.
C26_OutboundChecksThenSavesThenApplies ==
    Returned("create_outbound_order", "OUTBOUND") =>
        /\ last.result = OK =>
               /\ Len(calls) = 3 * Len(DraftItems) + 1
               /\ \A n \in 1..Len(DraftItems) :
                      calls[n] = <<"get_variant_by_id", DraftItems[n].variant_id>>
               /\ calls[Len(DraftItems) + 1] = <<"add_document", last.doc_id>>
               /\ \A u \in Calls("update_variant") : u > Len(DraftItems) + 1
               /\ Cardinality(Calls("update_variant")) = Len(DraftItems)
        /\ last.result # OK =>
               Calls("add_document") \cup Calls("update_variant") = {}

\* C26 witness: an outbound of two items on two variants went through
C26_Witness ==
    /\ Returned("create_outbound_order", "OUTBOUND")
    /\ last.result = OK
    /\ Len(DraftItems) = 2
    /\ DraftItems[1].variant_id # DraftItems[2].variant_id

\* Item n is the first whose result is negative when the items are applied in
\* order
FirstNegative(n) ==
    /\ Existed(DraftItems[n].variant_id)
    /\ AfterItem(n) < 0
    /\ \A m \in 1..(n - 1) : Existed(DraftItems[m].variant_id) => AfterItem(m) >= 0

\* C27: when item k of an adjustment is the first with a negative result, the
\* call fails with the document already persisted, the items before k applied
\* and item k and all later items not applied.
C27_AdjustmentRejectsInsideLoop ==
    Returned("create_adjustment_order", "ADJUST") =>
        \A k \in 1..Len(DraftItems) :
            FirstNegative(k) =>
                /\ last.result = BusinessRuleViolation
                /\ Persisted("ADJUST")
                /\ DOMAIN stock_qty = DOMAIN before.stock_qty
                /\ \A v \in DOMAIN before.stock_qty :
                       stock_qty[v] = before.stock_qty[v]
                                      + SumQty(SubSeq(DraftItems, 1, k - 1), v, 1)

\* C27 witness: the second item was rejected after the first had raised a stock
C27_Witness ==
    /\ Returned("create_adjustment_order", "ADJUST")
    /\ Len(DraftItems) = 2
    /\ FirstNegative(2)
    /\ Existed(DraftItems[1].variant_id)
    /\ DraftItems[1].quantity > 0

\* C28: the reversal delta of an item is -quantity for INBOUND, +quantity for
\* OUTBOUND and -quantity for ADJUST, and the net impact of a variant is the sum
\* of the reversal deltas of the items referencing it.
C28_ReversalDeltaByType ==
    DeletedStored =>
        /\ \A i \in 1..Len(last.document.items) :
               Change(last.document.doc_type, last.document.items[i])
                   = Reversal(last.document.doc_type, last.document.items[i].quantity)
        /\ \A v \in VariantIds :
               ImpactGet(ComputeImpacts(last.document, 1, << >>), v)
                   = NetImpact(last.document.doc_type, last.document.items, v, 1)
        /\ last.result = OK =>
               \A v \in DOMAIN before.stock_qty :
                   stock_qty[v] = before.stock_qty[v]
                       + NetImpact(last.document.doc_type, last.document.items, v, 1)

\* C28 witness: reversing an adjustment with a negative quantity raised the stock
C28_Witness ==
    /\ DeletedStored
    /\ last.result = OK
    /\ last.document.doc_type = "ADJUST"
    /\ \E i \in 1..Len(last.document.items) :
           /\ last.document.items[i].quantity < 0
           /\ stock_qty[last.document.items[i].variant_id]
                  > before.stock_qty[last.document.items[i].variant_id]

\* ------------------------------------------------ claims on the catalogue
ReturnedIds == {last.returned[k].id : k \in DOMAIN last.returned}
LowStockIds == {v \in DOMAIN stock_qty : stock_qty[v] <= safety_stock[v]}

\* C21: get_low_stock_variants returns exactly the variants, of every product,
\* whose stock_qty <= safety_stock (each once, with its stored values), and it
\* changes no variant and no document.
C21_LowStockExactAndReadOnly ==
    last.op = "get_low_stock_variants"
    => /\ ReturnedIds = LowStockIds
       /\ Len(last.returned) = Cardinality(LowStockIds)
       /\ \A k \in DOMAIN last.returned :
              /\ last.returned[k].stock_qty = stock_qty[last.returned[k].id]
              /\ last.returned[k].safety_stock = safety_stock[last.returned[k].id]
              /\ last.returned[k].product_id = product_id[last.returned[k].id]
       /\ NothingChanged
       /\ calls = << >>

\* C21 witness: the query returned a variant of the second product whose stock
\* is on hand and equal to its threshold, and left out a variant above its
\* threshold
C21_Witness ==
    /\ last.op = "get_low_stock_variants"
    /\ \E v \in ReturnedIds :
           /\ stock_qty[v] > 0
           /\ stock_qty[v] = safety_stock[v]
           /\ product_id[v] = MaxProducts
    /\ \E v \in DOMAIN stock_qty : stock_qty[v] > safety_stock[v] /\ v \notin ReturnedIds

EngineOps == CreateOps \cup {"delete_document"}

\* The stock of a variant row differs after the step
StockChanged ==
    \E v \in DOMAIN stock_qty \cap DOMAIN stock_qty' : stock_qty'[v] # stock_qty[v]

StockOnlyByEngine == StockChanged => last'.op \in EngineOps

MetadataEditKeepsStock ==
    last.op = "update_variant"
    => /\ last.result = OK
       /\ stock_qty = before.stock_qty
       /\ product_id = before.product_id
       /\ documents = before.documents
       /\ document_items = before.document_items

\* C22: the stock_qty of a variant changes only in a step of create_inbound_order,
\* create_outbound_order, create_adjustment_order or delete_document; the update
\* of a variant's metadata leaves every stock_qty as it was.
C22_StockChangedOnlyByEngine ==
    []MetadataEditKeepsStock /\ [][StockOnlyByEngine]_vars

\* C22 witness: the threshold of a variant with stock on hand was edited and
\* written through update_variant
C22_Witness ==
    /\ last.op = "update_variant"
    /\ stock_qty[last.doc_id] > 0
    /\ safety_stock[last.doc_id] # before.safety_stock[last.doc_id]
    /\ Cardinality(Calls("update_variant")) = 1

\* C24: get_documents(doc_type) returns exactly the stored documents of that
\* doc_type (all of them without a doc_type), each with no items, and
\* get_document_detail(id) returns the stored document with its stored items.
C24_ListHeadersDetailItems ==
    /\ last.op = "get_documents"
       => /\ ReturnedIds = {d \in DOMAIN documents :
                             last.document.doc_type \in {"None", documents[d]}}
          /\ Len(last.returned) = Cardinality(ReturnedIds)
          /\ \A k \in DOMAIN last.returned :
                 /\ last.returned[k].doc_type = documents[last.returned[k].id]
                 /\ last.returned[k].items = << >>
    /\ (last.op = "get_document_detail" /\ last.doc_id \in DOMAIN documents)
       => /\ last.returned.doc_type = documents[last.doc_id]
          /\ last.returned.items = document_items[last.doc_id]

\* --------------------------------------------------- claims on the stores
\* C23: add_document stores the header together with all items of the document
\* or, when a statement fails while writing, neither the header nor any item.
C23_AddDocumentAllOrNothing ==
    last.op = "store.add_document"
    => /\ stock_qty = before.stock_qty
       /\ \/ last.result = OK /\ Persisted(last.document.doc_type)
          \/ last.result = RepositoryError /\ NothingChanged

\* C23 witness: the header and an item had been written when a later statement
\* failed
C23_Witness ==
    /\ last.op = "store.add_document"
    /\ last.result = RepositoryError
    /\ Len(calls) >= 2
    /\ Len(calls) < Statements(last.document)

\* C30: update_variant on an id that is absent, or None, raises an error and
\* changes no stored variant.
C30_UpdateOfAbsentVariantFails ==
    (last.op = "store.update_variant" /\ last.doc_id \notin DOMAIN before.stock_qty)
    => /\ last.result = (IF last.doc_id = NoVariant.id
                         THEN RepositoryError ELSE EntityNotFoundError)
       /\ NothingChanged

\* C30 witness: update_variant was called for an absent id while another
\* variant was stored
C30_Witness ==
    /\ last.op = "store.update_variant"
    /\ last.doc_id # NoVariant.id
    /\ last.doc_id \notin DOMAIN before.stock_qty
    /\ DOMAIN before.stock_qty # {}

\* ------------------------------------------- claims on failing store calls
\* The caller whose repository calls can raise
caller == workers[1]

\* The repository call that raised, when one did
FailedCall == calls[Len(calls)]
Failed == calls # << >> /\ FailedCall[3] = "raised"

\* The effect of a stored document's item on stock
Effect(doc_type, item) == 0 - Change(doc_type, item)

\* A failure ends the operation at once: it is the last call made, and the
\* caller holds RepositoryError
FailurePropagates ==
    \A k \in 1..Len(calls) :
        calls[k][3] = "raised"
        => /\ k = Len(calls)
           /\ caller.pc = "done"
           /\ caller.result = RepositoryError

\* A create operation that failed in the round of item k after add_document:
\* the document is stored, the items before k are applied, the others are not
CreateKeepsPrefix ==
    (/\ Failed
     /\ caller.op \in CreateOps
     /\ FailedCall[1] \in {"get", "update"}
     /\ NoRepeat(caller.document.items)
     /\ \A j \in DOMAIN caller.document.items :
            caller.document.items[j].variant_id \in DOMAIN before.stock_qty)
    => /\ caller.doc_id \in DOMAIN documents \ DOMAIN before.documents
       /\ document_items[caller.doc_id] = caller.document.items
       /\ \A j \in DOMAIN caller.document.items :
              LET item == caller.document.items[j]
              IN stock_qty[item.variant_id] =
                     before.stock_qty[item.variant_id]
                     + (IF j < FailedCall[2]
                        THEN Effect(caller.document.doc_type, item)
                        ELSE 0)

\* A create operation that failed before or in add_document wrote nothing
CreateFailedEarly ==
    (Failed /\ caller.op \in CreateOps /\ FailedCall[1] \in {"check", "add_document"})
    => NothingChanged

\* delete_document that failed in step 4 or 5: the document is still stored and
\* the impacts before the failing one are applied
DeleteKeepsPrefix ==
    (Failed /\ caller.op = "delete_document")
    => /\ documents = before.documents
       /\ document_items = before.document_items
       /\ FailedCall[1] \in {"get_document", "check"} => NothingChanged
       /\ FailedCall[1] \in {"get", "update", "delete_document"}
          => \A j \in DOMAIN caller.impacts :
                 LET vid == caller.impacts[j].variant_id
                 IN vid \in DOMAIN before.stock_qty
                    => stock_qty[vid] = before.stock_qty[vid]
                           + (IF j < FailedCall[2] THEN caller.impacts[j].change
                              ELSE 0)

\* C29: a failure of a store call inside a create_* or delete_document operation
\* reaches the caller; the call is not repeated, nothing follows it, and the
\* store writes made before it stay (the document and the first k-1 stock
\* writes when the k-th item fails).
C29_StoreFailurePropagates ==
    /\ FailurePropagates
    /\ CreateKeepsPrefix
    /\ CreateFailedEarly
    /\ DeleteKeepsPrefix

\* C29 witness: the variant write for the second item of a create operation
\* failed after the first item's stock was written
C29_Witness ==
    /\ Failed
    /\ caller.op \in CreateOps
    /\ FailedCall[1] = "update"
    /\ FailedCall[2] = 2
    /\ NoRepeat(caller.document.items)
    /\ stock_qty[caller.document.items[1].variant_id]
           # before.stock_qty[caller.document.items[1].variant_id]

\* ------------------------------------------------------ claims on the engine
\* The store calls of an operation: at most three per item (pre-check or strict
\* check, read, write) and two for the document itself
CallsBounded == Len(calls) <= 2 + 3 * Len(caller.document.items)

Entered == caller.pc # "idle"
Left == caller.pc = "done"

\* C31: every engine operation makes a bounded number of store calls per item
\* and then returns or raises; it never waits or loops without end.
C31_OperationsTerminate ==
    []CallsBounded /\ (Entered ~> Left)

\* C31 witness: create_outbound_order returned after the pre-check, the save
\* and the read and write of every item of a full document
C31_Witness ==
    /\ Left
    /\ caller.op = "create_outbound_order"
    /\ caller.result = OK
    /\ Len(caller.document.items) = MaxItems
    /\ Len(calls) = 1 + 3 * MaxItems

\* The quantity an item of a stored document counts for in the ledger
Signed(doc_type, item) ==
    IF doc_type = "OUTBOUND" THEN 0 - item.quantity ELSE item.quantity

\* The ledger of variant_id over the item rows from i on
RECURSIVE ItemsLedger(_, _, _, _)
ItemsLedger(doc_type, items, variant_id, i) ==
    IF i > Len(items) THEN 0
    ELSE (IF items[i].variant_id = variant_id THEN Signed(doc_type, items[i]) ELSE 0)
         + ItemsLedger(doc_type, items, variant_id, i + 1)

\* The ledger of variant_id over the stored documents ids
RECURSIVE Ledger(_, _, _, _)
Ledger(docs, rows, ids, variant_id) ==
    IF ids = {} THEN 0
    ELSE LET d == CHOOSE x \in ids : TRUE
         IN ItemsLedger(docs[d], rows[d], variant_id, 1)
            + Ledger(docs, rows, ids \ {d}, variant_id)

\* Every stored item references a variant row, and every stock is its ledger
Consistent(stock, docs, rows) ==
    /\ \A d \in DOMAIN docs : \A k \in DOMAIN rows[d] :
           rows[d][k].variant_id \in DOMAIN stock
    /\ \A v \in DOMAIN stock : stock[v] = Ledger(docs, rows, DOMAIN docs, v)

\* The call made in this step is a create for a variant that does not exist, or
\* a rejected create_adjustment_order
OutsideLedger ==
    \/ /\ last'.op \in CreateOps
       /\ \E k \in DOMAIN last'.document.items :
              last'.document.items[k].variant_id \notin DOMAIN stock_qty
    \/ last'.op = "create_adjustment_order" /\ last'.result # OK

LedgerKept ==
    (Consistent(stock_qty, documents, document_items) /\ ~OutsideLedger)
    => Consistent(stock_qty', documents', document_items')

\* C32: from no variants and no documents, as long as every create references
\* existing variants and no create_adjustment_order is rejected, each variant's
\* stock_qty is the sum over the stored documents of its item quantities, +q for
\* INBOUND, -q for OUTBOUND and the signed q for ADJUST.
C32_LedgerConsistency ==
    (documents = << >> => Consistent(stock_qty, documents, document_items))
    /\ [][LedgerKept]_vars

\* C32 witness: a document was deleted while another stays stored, and the
\* stock on hand is the ledger of the stored one
C32_Witness ==
    /\ last.op = "delete_document"
    /\ last.result = OK
    /\ documents # << >>
    /\ \E v \in DOMAIN stock_qty : stock_qty[v] > 0
    /\ Consistent(stock_qty, documents, document_items)
    /\ Consistent(before.stock_qty, before.documents, before.document_items)

\* The items of the document the call was given: the draft of a create, the
\* stored items of the id given to delete_document
GivenItems ==
    IF last.op = "delete_document"
    THEN (IF last.doc_id \in DOMAIN before.document_items
          THEN before.document_items[last.doc_id] ELSE << >>)
    ELSE last.document.items

Referenced == {GivenItems[k].variant_id : k \in DOMAIN GivenItems}

\* The documents the call may add or remove
OwnDocument ==
    IF last.op = "delete_document" THEN DOMAIN before.documents \cap {last.doc_id}
    ELSE {last.doc_id} \ DOMAIN before.documents

\* C33: a create_* or delete_document call changes stock_qty only of variants
\* referenced by the items of its document and adds or removes no document but
\* that one; every other variant and document is as before.
C33_OnlyOwnVariantsAndDocument ==
    last.op \in EngineOps
    => /\ DOMAIN stock_qty = DOMAIN before.stock_qty
       /\ \A v \in DOMAIN stock_qty \ Referenced : stock_qty[v] = before.stock_qty[v]
       /\ safety_stock = before.safety_stock
       /\ product_id = before.product_id
       /\ DOMAIN document_items = DOMAIN documents
       /\ IF last.op = "delete_document"
          THEN /\ DOMAIN documents \subseteq DOMAIN before.documents
               /\ DOMAIN before.documents \ DOMAIN documents \subseteq OwnDocument
          ELSE /\ DOMAIN before.documents \subseteq DOMAIN documents
               /\ DOMAIN documents \ DOMAIN before.documents \subseteq OwnDocument
       /\ \A d \in DOMAIN documents \cap DOMAIN before.documents :
              /\ documents[d] = before.documents[d]
              /\ document_items[d] = before.document_items[d]

\* C33 witness: a call changed the stock of a variant of its document while
\* another variant had stock on hand and another document was stored
C33_Witness ==
    /\ last.op \in EngineOps
    /\ last.result = OK
    /\ \E v \in Referenced \cap DOMAIN stock_qty : stock_qty[v] # before.stock_qty[v]
    /\ \E v \in DOMAIN stock_qty \ Referenced : stock_qty[v] > 0
    /\ DOMAIN documents \cap DOMAIN before.documents # {}

\* C34: create_adjustment_order with an item on a missing variant does not fail
\* for that item: the document is persisted, the item is read and skipped with
\* no write, and the other items are checked and applied as without it.
C34_AdjustmentSkipsMissingVariant ==
    (/\ Returned("create_adjustment_order", "ADJUST")
     /\ \E i \in 1..Len(DraftItems) : Missing(DraftItems[i]))
    => /\ Persisted("ADJUST")
       /\ DOMAIN stock_qty = DOMAIN before.stock_qty
       /\ \A k \in Calls("update_variant") : Existed(calls[k][2])
       /\ last.result \in {OK, BusinessRuleViolation}
       /\ last.result = BusinessRuleViolation
              <=> \E n \in 1..Len(DraftItems) : FirstNegative(n)
       /\ last.result = OK
          => /\ Cardinality(Calls("get_variant_by_id")) = Len(DraftItems)
             /\ \A v \in DOMAIN before.stock_qty :
                    stock_qty[v] = before.stock_qty[v] + SumQty(DraftItems, v, 1)

\* C34 witness: the item on the missing variant comes first and the item after
\* it changed the stock of an existing variant
C34_Witness ==
    /\ Returned("create_adjustment_order", "ADJUST")
    /\ last.result = OK
    /\ Len(DraftItems) = 2
    /\ Missing(DraftItems[1])
    /\ Existed(DraftItems[2].variant_id)
    /\ stock_qty[DraftItems[2].variant_id] # before.stock_qty[DraftItems[2].variant_id]

\* ------------------------------------------------ claims on the stock count
\* The list entries as they were sent by handle_submit
Entries == last.returned

\* C35: every list entry's difference is the counted quantity minus the stock
\* read at selection, handle_submit sends the differences as an ADJUST document,
\* and after a successful submit the stock of every listed variant is the
\* counted quantity of its entry.
C35_StockCountSetsActual ==
    /\ \A k \in DOMAIN tree : tree[k].quantity = tree[k].actual_qty - tree[k].system_qty
    /\ last.op = "handle_submit"
       => /\ last.document.doc_type = "ADJUST"
          /\ Len(last.document.items) = Len(Entries)
          /\ \A k \in DOMAIN Entries :
                 /\ last.document.items[k].variant_id = Entries[k].variant_id
                 /\ last.document.items[k].quantity
                        = Entries[k].actual_qty - Entries[k].system_qty
          /\ last.result = OK
             => \A k \in DOMAIN Entries :
                    stock_qty[Entries[k].variant_id] = Entries[k].actual_qty

====
